---- MODULE Spec2Model ----
(***************************************************************************)
(* A model of yaradb_client/client.py: the YaraClient HTTP binding.        *)
(* One action per public method; each action is the whole method: build    *)
(* the request, send it over the session, translate the response or the    *)
(* transport exception into the value returned or the exception raised.    *)
(* The server and the transport are the environment: every action draws    *)
(* the response (or the transport exception) from a small set.             *)
(***************************************************************************)
EXTENDS Integers, Sequences, FiniteSets, TLC

VARIABLES host, calls, sent, op, args, request, response, result

vars == <<host, calls, sent, op, args, request, response, result>>

\* How many client calls a behaviour makes.
MaxCalls == 2

\* ------------------------------------------------------------------------
\* Python values
\* ------------------------------------------------------------------------

\* Optional values: None is the empty sequence, a value v is <<v>>.
None == <<>>

Some(v) == <<v>>

\* A Python object that can sit in a JSON mapping or be an error message:
\* a str, None, or the empty list.
PyStrObj(s) == [t |-> "str", v |-> s]

PyNone == [t |-> "null", v |-> ""]

PyEmptyList == [t |-> "list", v |-> ""]

\* A decoded JSON document: a scalar (d empty) or a mapping whose items are d.
JScalar(x) == [t |-> x.t, v |-> x.v, d |-> {}]

JDict(items) == [t |-> "dict", v |-> "", d |-> items]

\* str(x) of Python.
PyStr(x) ==
    CASE x.t = "str" -> x.v
      [] x.t = "null" -> "None"
      [] x.t = "list" -> "[]"
      [] OTHER -> "{}"

\* isinstance(x, dict)
IsDict(x) == x.t = "dict"

\* x.get(key, default) on a dict
DictGet(x, key, default) ==
    IF \E it \in x.d : it[1] = key
    THEN (CHOOSE it \in x.d : it[1] = key)[2]
    ELSE default

\* "".join(parts)
RECURSIVE Join(_)
Join(parts) ==
    IF parts = <<>> THEN "" ELSE Head(parts) \o Join(Tail(parts))

\* sep.join(parts)
RECURSIVE JoinWith(_, _)
JoinWith(parts, sep) ==
    IF Len(parts) <= 1 THEN Join(parts)
    ELSE Head(parts) \o sep \o JoinWith(Tail(parts), sep)

\* s.rstrip(ch), s given as its pieces
RECURSIVE RStrip(_, _)
RStrip(parts, ch) ==
    IF parts # <<>> /\ parts[Len(parts)] = ch
    THEN RStrip(SubSeq(parts, 1, Len(parts) - 1), ch)
    ELSE parts

\* ------------------------------------------------------------------------
\* Identifiers: a str, or a uuid.UUID given by its five hex fields
\* ------------------------------------------------------------------------

StrId(s) == [kind |-> "str", parts |-> <<s>>]

UuidId(fields) == [kind |-> "uuid", parts |-> fields]

\* A plausible slip: the UUID's hex digits without the hyphens (uuid.hex).
StrHex(id) == Join(id.parts)

\* str(doc_id)
Str(id) == IF id.kind = "uuid" THEN JoinWith(id.parts, "-") ELSE id.parts[1]

DocIds ==
    { StrId("abc"),
      UuidId(<<"12345678", "1234", "5678", "1234", "567812345678">>) }

\* ------------------------------------------------------------------------
\* Exceptions
\* ------------------------------------------------------------------------

YaraErrors ==
    { "YaraError", "YaraConnectionError", "YaraNotFoundError",
      "YaraConflictError", "YaraBadRequestError" }

\* The classes an exception is an instance of: the Yara* hierarchy of the
\* client, and the part of requests.exceptions the client's except clauses
\* discriminate on.
Bases(exc) ==
    CASE exc = "YaraError" -> {"YaraError"}
      [] exc \in YaraErrors -> {exc, "YaraError"}
      [] exc = "ConnectionError" -> {"ConnectionError", "RequestException"}
      [] exc = "ConnectTimeout" ->
            {"ConnectTimeout", "ConnectionError", "Timeout", "RequestException"}
      [] exc = "ReadTimeout" -> {"ReadTimeout", "Timeout", "RequestException"}
      [] exc = "ChunkedEncodingError" ->
            {"ChunkedEncodingError", "RequestException"}
      [] exc = "JSONDecodeError" ->
            {"JSONDecodeError", "InvalidJSONError", "RequestException"}
      [] OTHER -> {exc}

IsInstance(exc, cls) == cls \in Bases(exc)

\* What a call gives its caller: a value returned or an exception raised.
NoValue == JScalar(PyNone)

Return(v) ==
    [kind |-> "return", exc |-> "", message |-> PyNone,
     status_code |-> None, value |-> v]

\* YaraError.__init__(message, status_code), for the class exc
Raise(exc, message, status_code) ==
    [kind |-> "raise", exc |-> exc, message |-> message,
     status_code |-> status_code, value |-> NoValue]

\* An exception of another library passing through the client uncaught.
Propagate(exc) ==
    [kind |-> "raise", exc |-> exc, message |-> PyNone,
     status_code |-> None, value |-> NoValue]

\* YaraConnectionError.__init__(host, original_error)
YaraConnectionError(h, original_error) ==
    Raise("YaraConnectionError",
          PyStrObj("Failed to connect to " \o h
                   \o ". Is the server running? Error: " \o original_error),
          None)

\* ------------------------------------------------------------------------
\* Responses
\* ------------------------------------------------------------------------

\* What session.<method>(...) gives: a response, or a transport exception.
Reply(status, text) == [exc |-> "", status_code |-> status, text |-> text]

Failure(exc) == [exc |-> exc, status_code |-> 0, text |-> ""]

\* response.json(): the decoded body, or JSONDecodeError (ok = FALSE).
Decoded(val) == [ok |-> TRUE, val |-> val]

Undecodable == [ok |-> FALSE, val |-> NoValue]

json(text) ==
    CASE text = "{}" -> Decoded(JDict({}))
      [] text = "{\"detail\": \"field required\"}" ->
            Decoded(JDict({<<"detail", PyStrObj("field required")>>}))
      [] text = "{\"detail\": null}" -> Decoded(JDict({<<"detail", PyNone>>}))
      [] text = "{\"status\": \"alive\"}" ->
            Decoded(JDict({<<"status", PyStrObj("alive")>>}))
      [] text = "{\"status\": \"dead\"}" ->
            Decoded(JDict({<<"status", PyStrObj("dead")>>}))
      [] text = "\"alive\"" -> Decoded(JScalar(PyStrObj("alive")))
      [] text = "null" -> Decoded(JScalar(PyNone))
      [] text = "[]" -> Decoded(JScalar(PyEmptyList))
      [] OTHER -> Undecodable

\* ------------------------------------------------------------------------
\* YaraClient._handle_response
\* ------------------------------------------------------------------------

\* A plausible slip: every 2xx status taken for success.
IsOk2xx(resp) == resp.status_code \in 200..299

\* if response.status_code == 200
IsOk(resp) == resp.status_code = 200

\* A plausible slip: an undecodable 200 body handed back as text.
OkResultLenient(resp) ==
    LET j == json(resp.text) IN
    IF j.ok THEN Return(j.val) ELSE Return(JScalar(PyStrObj(resp.text)))

\* the body of the 200 branch
OkResult(resp) ==
    LET j == json(resp.text) IN
    IF j.ok
    THEN Return(j.val)
    ELSE Raise("YaraError", PyStrObj("Invalid JSON response from server"),
               Some(resp.status_code))

\* A plausible slip: the detail taken from a mapping only, else the raw text.
ErrorDetailTextOnly(resp) ==
    LET j == json(resp.text) IN
    IF j.ok /\ IsDict(j.val)
    THEN DictGet(j.val, "detail", PyStrObj("Unknown API error"))
    ELSE PyStrObj(resp.text)

\* error_detail of a non-200 response
ErrorDetail(resp) ==
    LET j == json(resp.text) IN
    IF j.ok
    THEN IF IsDict(j.val)
         THEN DictGet(j.val, "detail", PyStrObj("Unknown API error"))
         ELSE PyStrObj(PyStr(j.val))
    ELSE IF resp.text # "" THEN PyStrObj(resp.text)
         ELSE PyStrObj("Unknown API error")

\* the status-to-exception chain
ErrorResult(resp, error_detail) ==
    CASE resp.status_code = 404 ->
            Raise("YaraNotFoundError", error_detail, Some(404))
      [] resp.status_code = 409 ->
            Raise("YaraConflictError", error_detail, Some(409))
      [] resp.status_code = 400 ->
            Raise("YaraBadRequestError", error_detail, Some(400))
      [] resp.status_code = 422 ->
            Raise("YaraBadRequestError",
                  PyStrObj("Validation Error: " \o PyStr(error_detail)),
                  Some(422))
      [] OTHER -> Raise("YaraError", error_detail, Some(resp.status_code))

HandleResponse(resp) ==
    IF IsOk(resp) THEN OkResult(resp)
    ELSE ErrorResult(resp, ErrorDetail(resp))

\* ------------------------------------------------------------------------
\* Requests
\* ------------------------------------------------------------------------

\* The timeout, in seconds, of the liveness request.
PingTimeout == 3

\* One call of session.get/post/put/delete/request: json, params and timeout
\* are None when the call does not pass them.
Request(method, url, payload, params, timeout) ==
    [method |-> method, url |-> url, json |-> payload, params |-> params,
     timeout |-> timeout]

\* The transport exceptions a request can end in.  A request sent without a
\* timeout cannot time out in the client; the connection can still be refused
\* (ConnectionError) or break while the body is read (ChunkedEncodingError).
TransportErrors(req) ==
    IF req.timeout = None
    THEN {"ConnectionError", "ChunkedEncodingError"}
    ELSE {"ConnectionError", "ConnectTimeout", "ReadTimeout",
          "ChunkedEncodingError"}

Outcomes(req, replies) == replies \cup { Failure(e) : e \in TransportErrors(req) }

\* A plausible slip: a failed request sent a second time.
RequestsRetry(req, resp) == IF resp.exc # "" THEN <<req, req>> ELSE <<req>>

\* The requests one call puts on the session: the single session call of
\* the method's try block.
Requests(req, resp) == <<req>>

\* try: response = session...; return self._handle_response(response)
\* except requests.ConnectionError as e: raise YaraConnectionError(host, e)
Attempt(h, resp) ==
    IF resp.exc = "" THEN HandleResponse(resp)
    ELSE IF IsInstance(resp.exc, "ConnectionError")
         THEN YaraConnectionError(h, resp.exc)
         ELSE Propagate(resp.exc)

\* A plausible slip: any status field taken for a live server.
AliveAnyStatus(val) == \E it \in val.d : it[1] = "status"

\* response.json().get("status") == "alive", on a decoded mapping
Alive(val) == DictGet(val, "status", PyNone) = PyStrObj("alive")

\* YaraClient.ping, after the request
PingResult(resp) ==
    IF resp.exc # ""
    THEN IF IsInstance(resp.exc, "ConnectionError")
            \/ IsInstance(resp.exc, "Timeout")
         THEN Return(FALSE)
         ELSE Propagate(resp.exc)
    ELSE IF resp.status_code # 200 THEN Return(FALSE)
    ELSE LET j == json(resp.text) IN
         IF ~j.ok THEN Propagate("JSONDecodeError")
         ELSE IF ~IsDict(j.val) THEN Propagate("AttributeError")
         ELSE Return(Alive(j.val))

\* The value of a parameter that has a default.
Default(opt, d) == IF opt = None THEN d ELSE opt[1]

\* bool(x) of an Optional[Dict] and of an Optional[List]
TruthyDict(opt) == opt # None /\ opt[1] # {}

TruthyList(opt) == opt # None /\ opt[1] # <<>>

PingRequest(h) == Request("GET", h \o "/ping", None, None, Some(PingTimeout))

CreateRequest(h, a) ==
    Request("POST", h \o "/document/create",
            Some([table_name |-> a.table_name, name |-> a.name, body |-> a.body]),
            None, None)

GetRequest(h, a) ==
    Request("GET", h \o "/document/get/" \o Str(a.doc_id), None, None, None)

FindRequest(h, a) ==
    Request("POST", h \o "/document/find", Some(a.filter_body),
            Some([include_archived |-> Default(a.include_archived, FALSE)]),
            None)

UpdateRequest(h, a) ==
    Request("PUT", h \o "/document/update/" \o Str(a.doc_id),
            Some([version |-> a.version, body |-> a.body]), None, None)

ArchiveRequest(h, a) ==
    Request("PUT", h \o "/document/archive/" \o Str(a.doc_id), None, None, None)

CombineRequest(h, a) ==
    Request("POST", h \o "/document/combine",
            Some([name |-> a.name,
                  document_ids |->
                      [i \in 1..Len(a.document_ids) |-> Str(a.document_ids[i])],
                  merge_strategy |-> Default(a.merge_strategy, "overwrite")]),
            None, None)

CreateTablePayload(a) ==
    [name |-> a.name, mode |-> Default(a.mode, "free"),
     read_only |-> Default(a.read_only, FALSE)]
    @@ (IF TruthyDict(a.schema)
        THEN "schema_definition" :> a.schema[1] ELSE <<>>)
    @@ (IF TruthyList(a.unique_fields)
        THEN "unique_fields" :> a.unique_fields[1] ELSE <<>>)

CreateTableRequest(h, a) ==
    Request("POST", h \o "/table/create", Some(CreateTablePayload(a)), None, None)

ListTablesRequest(h) == Request("GET", h \o "/table/list", None, None, None)

GetTableRequest(h, a) == Request("GET", h \o "/table/" \o a.name, None, None, None)

DeleteTableRequest(h, a) ==
    Request("DELETE", h \o "/table/" \o a.name, None, None, None)

GetTableDocumentsRequest(h, a) ==
    Request("GET", h \o "/table/" \o a.name \o "/documents", None, None, None)

\* A plausible slip: the client confirming on the caller's behalf.
SelfDestructPayloadConfirmed(a) ==
    [verification_phrase |-> a.verification_phrase, safety_pin |-> a.safety_pin,
     confirm |-> TRUE]

SelfDestructPayload(a) ==
    [verification_phrase |-> a.verification_phrase, safety_pin |-> a.safety_pin,
     confirm |-> Default(a.confirm, TRUE)]

SelfDestructRequest(h, a) ==
    Request("DELETE", h \o "/system/self-destruct", Some(SelfDestructPayload(a)),
            None, None)

\* ------------------------------------------------------------------------
\* Inputs: the callers' arguments and the server's replies
\* ------------------------------------------------------------------------

\* The host handed to YaraClient(...), in pieces: the default, and one
\* written with trailing slashes.
HostArgs ==
    { <<"http://127.0.0.1:8000">>, <<"http://db:8000", "/", "/">> }

DefaultHostArg == <<"http://127.0.0.1:8000">>

\* JSON mappings a caller passes: items as <<key, value>> pairs.
DocBodies == { {}, {<<"x", "1">>} }

Schemas == { None, Some({}), Some({<<"type", "object">>}) }

UniqueFields == { None, Some(<<>>), Some(<<"email">>) }

TableNames == { "users", "logs" }

\* S when the specification varies the arguments, one member of it when it
\* varies the replies.
Pick(S, rich) == IF rich THEN S ELSE { CHOOSE x \in S : TRUE }

CreateArgs(rich) ==
    [table_name : {"users"}, name : {"doc"}, body : Pick(DocBodies, rich)]

GetArgs(rich) == [doc_id : Pick(DocIds, rich)]

FindArgs(rich) ==
    [filter_body : Pick(DocBodies, rich),
     include_archived : Pick({None, Some(TRUE)}, rich)]

UpdateArgs(rich) ==
    [doc_id : Pick(DocIds, rich), version : {3}, body : Pick(DocBodies, rich)]

IdLists ==
    { <<>> } \cup { <<a>> : a \in DocIds }
    \cup { s \in DocIds \X DocIds : s[1] # s[2] }

CombineArgs(rich) ==
    [document_ids : Pick(IdLists, rich), name : {"merged"},
     merge_strategy : Pick({None, Some("append")}, rich)]

CreateTableArgs(rich) ==
    [name : {"users"}, mode : Pick({Some("strict"), None}, rich),
     schema : Pick(Schemas, rich), unique_fields : Pick(UniqueFields, rich),
     read_only : Pick({None, Some(TRUE)}, rich)]

TableArgs(rich) == [name : Pick(TableNames, rich)]

SelfDestructArgs(rich) ==
    [verification_phrase : Pick({"BDaray", "wrong"}, rich),
     safety_pin : Pick({2027, 1234}, rich),
     confirm : Pick({None, Some(FALSE), Some(TRUE)}, rich)]

Statuses == { 200, 201, 400, 404, 409, 422, 500 }

Texts ==
    { "", "Internal Server Error", "{}", "{\"detail\": \"field required\"}",
      "{\"detail\": null}", "{\"status\": \"alive\"}", "{\"status\": \"dead\"}",
      "\"alive\"", "null", "[]" }

AllReplies == { Reply(s, t) : s \in Statuses, t \in Texts }

FewReplies ==
    { Reply(200, "{}"), Reply(200, ""),
      Reply(404, "{\"detail\": \"field required\"}"), Reply(500, "") }

\* ------------------------------------------------------------------------
\* The client
\* ------------------------------------------------------------------------

NoCall == [none |-> TRUE]

\* YaraClient.__init__
YaraClientInit(hostArg) == Join(RStrip(hostArg, "/"))

InitWith(hosts) ==
    /\ host \in { YaraClientInit(h) : h \in hosts }
    /\ calls = 0
    /\ sent = 0
    /\ op = "init"
    /\ args = NoCall
    /\ request = NoCall
    /\ response = NoCall
    /\ result = NoCall

\* One call of a method: the request goes out, the caller gets res.
Call(name, a, req, resp, res) ==
    /\ calls < MaxCalls
    /\ calls' = calls + 1
    /\ sent' = sent + Len(Requests(req, resp))
    /\ op' = name
    /\ args' = a
    /\ request' = req
    /\ response' = resp
    /\ result' = res
    /\ UNCHANGED host

Ping(replies) ==
    LET req == PingRequest(host) IN
    \E resp \in Outcomes(req, replies) :
        Call("ping", NoCall, req, resp, PingResult(resp))

Create(rich, replies) ==
    \E a \in CreateArgs(rich) :
        LET req == CreateRequest(host, a) IN
        \E resp \in Outcomes(req, replies) :
            Call("create", a, req, resp, Attempt(host, resp))

Get(rich, replies) ==
    \E a \in GetArgs(rich) :
        LET req == GetRequest(host, a) IN
        \E resp \in Outcomes(req, replies) :
            Call("get", a, req, resp, Attempt(host, resp))

Find(rich, replies) ==
    \E a \in FindArgs(rich) :
        LET req == FindRequest(host, a) IN
        \E resp \in Outcomes(req, replies) :
            Call("find", a, req, resp, Attempt(host, resp))

Update(rich, replies) ==
    \E a \in UpdateArgs(rich) :
        LET req == UpdateRequest(host, a) IN
        \E resp \in Outcomes(req, replies) :
            Call("update", a, req, resp, Attempt(host, resp))

Archive(rich, replies) ==
    \E a \in GetArgs(rich) :
        LET req == ArchiveRequest(host, a) IN
        \E resp \in Outcomes(req, replies) :
            Call("archive", a, req, resp, Attempt(host, resp))

Combine(rich, replies) ==
    \E a \in CombineArgs(rich) :
        LET req == CombineRequest(host, a) IN
        \E resp \in Outcomes(req, replies) :
            Call("combine", a, req, resp, Attempt(host, resp))

CreateTable(rich, replies) ==
    \E a \in CreateTableArgs(rich) :
        LET req == CreateTableRequest(host, a) IN
        \E resp \in Outcomes(req, replies) :
            Call("create_table", a, req, resp, Attempt(host, resp))

ListTables(replies) ==
    LET req == ListTablesRequest(host) IN
    \E resp \in Outcomes(req, replies) :
        Call("list_tables", NoCall, req, resp, Attempt(host, resp))

GetTable(rich, replies) ==
    \E a \in TableArgs(rich) :
        LET req == GetTableRequest(host, a) IN
        \E resp \in Outcomes(req, replies) :
            Call("get_table", a, req, resp, Attempt(host, resp))

DeleteTable(rich, replies) ==
    \E a \in TableArgs(rich) :
        LET req == DeleteTableRequest(host, a) IN
        \E resp \in Outcomes(req, replies) :
            Call("delete_table", a, req, resp, Attempt(host, resp))

GetTableDocuments(rich, replies) ==
    \E a \in TableArgs(rich) :
        LET req == GetTableDocumentsRequest(host, a) IN
        \E resp \in Outcomes(req, replies) :
            Call("get_table_documents", a, req, resp, Attempt(host, resp))

SelfDestruct(rich, replies) ==
    \E a \in SelfDestructArgs(rich) :
        LET req == SelfDestructRequest(host, a) IN
        \E resp \in Outcomes(req, replies) :
            Call("self_destruct", a, req, resp, Attempt(host, resp))

\* Callers varying their arguments, against a few replies.
Init == InitWith(HostArgs)

Next ==
    \/ Ping(FewReplies)
    \/ Create(TRUE, FewReplies)
    \/ Get(TRUE, FewReplies)
    \/ Find(TRUE, FewReplies)
    \/ Update(TRUE, FewReplies)
    \/ Archive(TRUE, FewReplies)
    \/ Combine(TRUE, FewReplies)
    \/ CreateTable(TRUE, FewReplies)
    \/ ListTables(FewReplies)
    \/ GetTable(TRUE, FewReplies)
    \/ DeleteTable(TRUE, FewReplies)
    \/ GetTableDocuments(TRUE, FewReplies)
    \/ SelfDestruct(TRUE, FewReplies)

Spec == Init /\ [][Next]_vars

\* The server varying its replies, against one call of each method.
InitReplies == InitWith({DefaultHostArg})

NextReplies ==
    \/ Ping(AllReplies)
    \/ Create(FALSE, AllReplies)
    \/ Get(FALSE, AllReplies)
    \/ Find(FALSE, AllReplies)
    \/ Update(FALSE, AllReplies)
    \/ Archive(FALSE, AllReplies)
    \/ Combine(FALSE, AllReplies)
    \/ CreateTable(FALSE, AllReplies)
    \/ ListTables(AllReplies)
    \/ GetTable(FALSE, AllReplies)
    \/ DeleteTable(FALSE, AllReplies)
    \/ GetTableDocuments(FALSE, AllReplies)
    \/ SelfDestruct(FALSE, AllReplies)

SpecReplies == InitReplies /\ [][NextReplies]_vars

\* ------------------------------------------------------------------------
\* Properties
\* ------------------------------------------------------------------------

\* The last call was of a method other than ping.
NonPing == op \notin {"init", "ping"}

\* The last call of a method other than ping got an HTTP response.
NonPingReply == NonPing /\ response.exc = ""

\* The exception class the response contract names for a status.
ErrorKind(status) ==
    CASE status = 404 -> "YaraNotFoundError"
      [] status = 409 -> "YaraConflictError"
      [] status \in {400, 422} -> "YaraBadRequestError"
      [] OTHER -> "YaraError"

\* C1: a method other than ping that gets a response whose status is not 200
\* (201 included) raises and returns no data; the exception is
\* YaraNotFoundError for 404, YaraConflictError for 409, YaraBadRequestError
\* for 400 and 422, YaraError itself otherwise, and its status_code is the
\* status received.
C1_NonOkStatusRaises ==
    (NonPingReply /\ response.status_code # 200) =>
        /\ result.kind = "raise"
        /\ result.value = NoValue
        /\ result.exc = ErrorKind(response.status_code)
        /\ result.status_code = Some(response.status_code)

C1_Witness ==
    /\ NonPingReply
    /\ response.status_code = 201
    /\ json(response.text).ok
    /\ result.kind = "raise"
    /\ result.exc = "YaraError"
    /\ result.status_code = Some(201)

\* C2: a method other than ping whose request fails in the transport raises
\* YaraConnectionError, with the host and the cause in its message and no
\* status_code; the transport's own exception never reaches the caller.
C2_TransportFailureWrapped ==
    (NonPing /\ response.exc # "") =>
        /\ result.kind = "raise"
        /\ result.exc = "YaraConnectionError"
        /\ result.status_code = None
        /\ result.message =
              PyStrObj("Failed to connect to " \o host
                       \o ". Is the server running? Error: " \o response.exc)

\* C3: ping never raises: whatever the request ends in, ping returns a
\* boolean, and FALSE unless the reply is a 200 whose body is a mapping with
\* status "alive".
C3_PingNeverRaises ==
    op = "ping" =>
        /\ result.kind = "return"
        /\ result.value \in BOOLEAN
        /\ result.value =>
              /\ response.exc = ""
              /\ response.status_code = 200
              /\ <<"status", PyStrObj("alive")>> \in json(response.text).val.d

\* C4: a method other than ping that gets a 200 returns the decoded body
\* unchanged when the body is JSON, and otherwise raises YaraError itself
\* with status_code 200 and returns no data.
C4_OkStatusDecodesOrRaises ==
    (NonPingReply /\ response.status_code = 200) =>
        IF json(response.text).ok
        THEN /\ result.kind = "return"
             /\ result.value = json(response.text).val
        ELSE /\ result.kind = "raise"
             /\ result.exc = "YaraError"
             /\ result.status_code = Some(200)
             /\ result.value = NoValue

C4_Witness ==
    /\ NonPingReply
    /\ response.status_code = 200
    /\ response.text = "Internal Server Error"
    /\ result.kind = "raise"
    /\ result.status_code = Some(200)

\* C5: ping returns TRUE only when the transport succeeded, the status is 200
\* and the decoded body's status field is "alive"; a 200 mapping whose status
\* field is missing or different, and every reply that is not a 200, give
\* FALSE.
C5_PingTrueOnlyIfAlive ==
    op = "ping" =>
        /\ (result.kind = "return" /\ result.value) =>
              /\ response.exc = ""
              /\ response.status_code = 200
              /\ json(response.text).ok
              /\ <<"status", PyStrObj("alive")>> \in json(response.text).val.d
        /\ (response.exc = "" /\ response.status_code # 200) =>
              (result.kind = "return" /\ ~result.value)
        /\ ( /\ response.exc = ""
             /\ response.status_code = 200
             /\ json(response.text).ok
             /\ IsDict(json(response.text).val)
             /\ <<"status", PyStrObj("alive")>> \notin json(response.text).val.d ) =>
              (result.kind = "return" /\ ~result.value)

C5_Witness ==
    /\ op = "ping"
    /\ response.exc = ""
    /\ response.status_code = 200
    /\ response.text = "{\"status\": \"dead\"}"
    /\ result.kind = "return"
    /\ ~result.value

\* C6: create_table always sends its request, with name, mode and read_only
\* in the payload; schema_definition is in the payload exactly when the
\* caller passed a schema, unique_fields exactly when the caller passed a
\* list of unique fields.
C6_OptionalFieldsWhenProvided ==
    op = "create_table" =>
        /\ sent = calls
        /\ {"name", "mode", "read_only"} \subseteq DOMAIN request.json[1]
        /\ ("schema_definition" \in DOMAIN request.json[1]) <=> (args.schema # None)
        /\ ("unique_fields" \in DOMAIN request.json[1])
              <=> (args.unique_fields # None)

\* The string form of an identifier: a str as it is, a UUID as its five hex
\* fields with hyphens between them.
StringForm(id) ==
    IF id.kind = "str" THEN id.parts[1]
    ELSE id.parts[1] \o "-" \o id.parts[2] \o "-" \o id.parts[3] \o "-"
         \o id.parts[4] \o "-" \o id.parts[5]

\* C7: get, update and archive put the string form of doc_id in the path;
\* combine sends the string forms of the ids in the order given, the name as
\* given, and merge_strategy "overwrite" when the caller names none; update
\* sends {version, body} as given by PUT to /document/update/{id}.
C7_IdentifiersAsStrings ==
    /\ op = "get" =>
          request.url = host \o "/document/get/" \o StringForm(args.doc_id)
    /\ op = "archive" =>
          request.url = host \o "/document/archive/" \o StringForm(args.doc_id)
    /\ op = "update" =>
          /\ request.method = "PUT"
          /\ request.url = host \o "/document/update/" \o StringForm(args.doc_id)
          /\ request.json = Some([version |-> args.version, body |-> args.body])
    /\ op = "combine" =>
          /\ request.json[1].name = args.name
          /\ Len(request.json[1].document_ids) = Len(args.document_ids)
          /\ \A i \in 1..Len(args.document_ids) :
                request.json[1].document_ids[i] = StringForm(args.document_ids[i])
          /\ request.json[1].merge_strategy =
                (IF args.merge_strategy = None THEN "overwrite"
                 ELSE args.merge_strategy[1])

C7_Witness ==
    /\ op = "combine"
    /\ args.merge_strategy = None
    /\ Len(args.document_ids) = 2
    /\ args.document_ids[1].kind = "uuid"
    /\ request.json[1].document_ids =
          <<"12345678-1234-5678-1234-567812345678", "abc">>
    /\ request.json[1].merge_strategy = "overwrite"

\* C8: every call sends exactly one request, whether it returns or raises,
\* so the requests sent always number the calls made, and no call changes
\* the client's host.
C8_OneRequestPerCall ==
    /\ sent = 0 /\ calls = 0
    /\ [][calls' = calls + 1 /\ sent' = sent + 1 /\ host' = host]_vars

C8_Witness ==
    /\ calls = 2
    /\ sent = 2
    /\ response.exc = "ConnectionError"
    /\ result.kind = "raise"

\* C9: self_destruct checks nothing itself: whatever the phrase, the pin and
\* confirm (FALSE included), it sends one DELETE to /system/self-destruct
\* with the three fields as the caller gave them, and returns exactly when
\* the server answers 200 with a JSON body.
C9_SelfDestructForwards ==
    op = "self_destruct" =>
        /\ sent = calls
        /\ request.method = "DELETE"
        /\ request.url = host \o "/system/self-destruct"
        /\ request.json =
              Some([verification_phrase |-> args.verification_phrase,
                    safety_pin |-> args.safety_pin,
                    confirm |-> IF args.confirm = None THEN TRUE
                                ELSE args.confirm[1]])
        /\ (result.kind = "return") <=>
              /\ response.exc = ""
              /\ response.status_code = 200
              /\ json(response.text).ok

C9_Witness ==
    /\ op = "self_destruct"
    /\ args.confirm = Some(FALSE)
    /\ args.verification_phrase = "wrong"
    /\ request.json[1].confirm = FALSE
    /\ result.kind = "return"

\* Python's str() of the JSON values the replies carry that are not mappings.
Stringified(text) ==
    CASE text = "null" -> "None"
      [] text = "\"alive\"" -> "alive"
      [] OTHER -> text

\* The text an error message is made of, as the response contract words it.
DetailText(text) ==
    LET j == json(text) IN
    IF j.ok /\ IsDict(j.val)
    THEN IF \E it \in j.val.d : it[1] = "detail"
         THEN (CHOOSE it \in j.val.d : it[1] = "detail")[2]
         ELSE PyStrObj("Unknown API error")
    ELSE IF j.ok THEN PyStrObj(Stringified(text))
    ELSE IF text = "" THEN PyStrObj("Unknown API error")
    ELSE PyStrObj(text)

\* C10: the message of the error raised for a status other than 200 is the
\* detail field of a JSON mapping ("Unknown API error" when it has none), the
\* stringified value of any other JSON body, and the raw text of a body that
\* is not JSON ("Unknown API error" when it is empty); for 422 it is that
\* text after "Validation Error: ", for every other status that text alone.
C10_ErrorMessage ==
    (NonPingReply /\ response.status_code # 200) =>
        result.message =
            (IF response.status_code = 422
             THEN PyStrObj("Validation Error: "
                           \o PyStr(DetailText(response.text)))
             ELSE DetailText(response.text))

C10_Witness ==
    /\ NonPingReply
    /\ response.status_code = 422
    /\ response.text = "{\"detail\": \"field required\"}"
    /\ result.exc = "YaraBadRequestError"
    /\ result.message = PyStrObj("Validation Error: field required")

====
